---- MODULE Spec2Model ----
(***************************************************************************)
(* A model of concerto-core's object introspection (lib/concerto.js) and   *)
(* of the name and assignability helpers of ModelUtil (lib/modelutil.js).  *)
(*                                                                         *)
(* JavaScript strings are sequences of one-character strings, so that the  *)
(* index arithmetic of lastIndexOf / substr / split / replace is modelled  *)
(* as the code performs it.  JavaScript values are tagged records.         *)
(***************************************************************************)
EXTENDS Integers, Sequences, FiniteSets, TLC

VARIABLES registry, obj, arg, ret

vars == <<registry, obj, arg, ret>>

(***************************************************************************)
(* Bounds of the model.                                                    *)
(***************************************************************************)
\* number of type names the registry declares
MaxTypes == 3
\* longest fully-qualified name handed to getShortName / getNamespace
MaxLen == 3
\* most '@' separators in a namespace handed to parseNamespace
MaxAts == 2

(***************************************************************************)
(* JavaScript values.                                                      *)
(***************************************************************************)
JsUndefined == [t |-> "undefined"]
JsNull == [t |-> "null"]
JsBool(b) == [t |-> "boolean", b |-> b]
JsStr(s) == [t |-> "string", s |-> s]

\* ToBoolean: what `if (v)` and `!v` test
Truthy(v) ==
    CASE v.t = "undefined" -> FALSE
      [] v.t = "null" -> FALSE
      [] v.t = "boolean" -> v.b
      [] v.t = "string" -> v.s # <<>>
      [] OTHER -> TRUE

\* ToString (ECMAScript): what a template literal and a computed property key apply
JsToString(v) ==
    CASE v.t = "undefined" -> <<"u", "n", "d", "e", "f", "i", "n", "e", "d">>
      [] v.t = "null" -> <<"n", "u", "l", "l">>
      [] v.t = "boolean" -> IF v.b THEN <<"t", "r", "u", "e">>
                                   ELSE <<"f", "a", "l", "s", "e">>
      [] OTHER -> v.s

SetMax(S) == CHOOSE m \in S : \A k \in S : k <= m

\* String.prototype.lastIndexOf(c): 0-based, -1 when c does not occur
lastIndexOf(s, c) ==
    LET at == {i \in 1..Len(s) : s[i] = c}
    IN  IF at = {} THEN -1 ELSE SetMax(at) - 1

\* String.prototype.indexOf(c): 0-based, -1 when c does not occur
indexOf(s, c) ==
    LET at == {i \in 1..Len(s) : s[i] = c}
    IN  IF at = {} THEN -1 ELSE (CHOOSE m \in at : \A k \in at : m <= k) - 1

\* String.prototype.substr(start, length), 0-based start
substr(s, start, length) == SubSeq(s, start + 1, start + length)

\* String.prototype.substr(start): to the end of the string
substrFrom(s, start) == SubSeq(s, start + 1, Len(s))

\* String.prototype.split(c): the segments between the occurrences of c
RECURSIVE split(_, _)
split(s, c) ==
    LET i == indexOf(s, c)
    IN  IF i = -1 THEN <<s>>
        ELSE <<substr(s, 0, i)>> \o split(substrFrom(s, i + 1), c)

\* String.prototype.replace(c, d) with a string pattern: the FIRST occurrence only
replace(s, c, d) ==
    LET i == indexOf(s, c)
    IN  IF i = -1 THEN s
        ELSE substr(s, 0, i) \o d \o substrFrom(s, i + 1)

(***************************************************************************)
(* Outcomes of a call: a returned value or a thrown error, with the number *)
(* of registry lookups (getType calls) the call made.                      *)
(***************************************************************************)
Return(v, n) == [kind |-> "ok", val |-> v, lookups |-> n]
Throw(e, n) == [kind |-> e, val |-> JsUndefined, lookups |-> n]

(***************************************************************************)
(* ModelUtil: names.                                                       *)
(***************************************************************************)
Dot == "."
At == "@"

\* getShortName keeping the dot: substr(dotIndex) for substr(dotIndex + 1)
getShortName_keepsDot(fqn) ==
    LET dotIndex == lastIndexOf(fqn, Dot)
    IN  IF dotIndex > -1 THEN substrFrom(fqn, dotIndex) ELSE fqn

getShortName(fqn) ==
    LET dotIndex == lastIndexOf(fqn, Dot)
    IN  IF dotIndex > -1 THEN substrFrom(fqn, dotIndex + 1) ELSE fqn

\* fqn is a JavaScript value: a string, or absent
ModelUtil_getNamespace(fqn) ==
    IF ~Truthy(fqn) THEN Throw("InvalidArgument", 0)
    ELSE LET dotIndex == lastIndexOf(fqn.s, Dot)
         IN  IF dotIndex > -1 THEN Return(JsStr(substr(fqn.s, 0, dotIndex)), 0)
             ELSE Return(JsStr(<<>>), 0)

Digits == {"0", "1", "2"}

IsNumericId(p) ==
    /\ p # <<>>
    /\ \A i \in 1..Len(p) : p[i] \in Digits
    /\ (Len(p) > 1 => p[1] # "0")

\* semver.valid / semver.parse accept MAJOR.MINOR.PATCH with an optional leading v
SemverCore(v) == IF v # <<>> /\ v[1] = "v" THEN Tail(v) ELSE v

SemverValid(v) ==
    LET p == split(SemverCore(v), Dot)
    IN  Len(p) = 3 /\ \A i \in 1..3 : IsNumericId(p[i])

SemverParse(v) ==
    IF SemverValid(v)
    THEN LET p == split(SemverCore(v), Dot)
         IN  [t |-> "object", major |-> p[1], minor |-> p[2], patch |-> p[3]]
    ELSE JsNull

\* parseNamespace without the test for more than one '@'
parseNamespace_noCountCheck(ns) ==
    IF ~Truthy(ns) THEN Throw("InvalidArgument", 0)
    ELSE LET parts == split(ns.s, At)
         IN  IF Len(parts) >= 2 /\ ~SemverValid(parts[2])
             THEN Throw("InvalidArgument", 0)
             ELSE Return([t |-> "object",
                          name |-> JsStr(parts[1]),
                          escapedNamespace |-> JsStr(replace(ns.s, At, <<"_">>)),
                          version |-> IF Len(parts) > 1 THEN JsStr(parts[2])
                                                        ELSE JsNull,
                          versionParsed |-> IF Len(parts) > 1
                                            THEN SemverParse(parts[2])
                                            ELSE JsNull], 0)

\* ns is a JavaScript value: a string, or absent
parseNamespace(ns) ==
    IF ~Truthy(ns) THEN Throw("InvalidArgument", 0)
    ELSE LET parts == split(ns.s, At)
         IN  IF Len(parts) > 2 THEN Throw("InvalidArgument", 0)
             ELSE IF Len(parts) = 2 /\ ~SemverValid(parts[2])
             THEN Throw("InvalidArgument", 0)
             ELSE Return([t |-> "object",
                          name |-> JsStr(parts[1]),
                          escapedNamespace |-> JsStr(replace(ns.s, At, <<"_">>)),
                          version |-> IF Len(parts) > 1 THEN JsStr(parts[2])
                                                        ELSE JsNull,
                          versionParsed |-> IF Len(parts) > 1
                                            THEN SemverParse(parts[2])
                                            ELSE JsNull], 0)

\* the primitive list without its String entry
PrimitiveTypes_noString ==
    { <<"B", "o", "o", "l", "e", "a", "n">>,
      <<"D", "a", "t", "e", "T", "i", "m", "e">>,
      <<"D", "o", "u", "b", "l", "e">>,
      <<"I", "n", "t", "e", "g", "e", "r">>,
      <<"L", "o", "n", "g">> }

PrimitiveTypes ==
    { <<"B", "o", "o", "l", "e", "a", "n">>,
      <<"S", "t", "r", "i", "n", "g">>,
      <<"D", "a", "t", "e", "T", "i", "m", "e">>,
      <<"D", "o", "u", "b", "l", "e">>,
      <<"I", "n", "t", "e", "g", "e", "r">>,
      <<"L", "o", "n", "g">> }

isPrimitiveType(typeName) == typeName \in PrimitiveTypes

(***************************************************************************)
(* The type registry (the model manager): a map from the fully-qualified   *)
(* names it declares to their declarations.  A declaration carries its     *)
(* fully-qualified name, the name of its direct supertype (empty when it   *)
(* has none) and the value getIdentifierFieldName() reports.               *)
(***************************************************************************)
Letters == <<"A", "B", "C", "D", "E", "F">>

\* the i-th declared name; the first has no namespace
TypeName(i) == IF i = 1 THEN <<Letters[1]>> ELSE <<"o", Dot, Letters[i]>>

Declared == {TypeName(i) : i \in 1..MaxTypes}

\* a name no registry declares
Unknown == <<"o", Dot, "U">>

NoSuper == <<>>

IdKey == <<"i", "d">>

\* what getIdentifierFieldName() may report: a field name, or a form of absent
IdFieldValues == {JsNull, JsUndefined, JsStr(<<>>), JsStr(IdKey)}

Declaration(name, super, idField) ==
    [t |-> "object", fqn |-> name, superType |-> super, idField |-> idField]

\* the declaration reached from name x by k direct-supertype links (NoSuper: none)
RECURSIVE Up(_, _, _)
Up(parent, x, k) ==
    IF k = 0 \/ x = NoSuper THEN x ELSE Up(parent, parent[x], k - 1)

\* single inheritance without cycles: every chain of supertype links ends
Forests ==
    {parent \in [Declared -> Declared \cup {NoSuper}] :
        \A x \in Declared : Up(parent, x, Cardinality(Declared)) = NoSuper}

\* the forests in which a type extends, if anything, the type declared before it
Chains ==
    {parent \in Forests :
        \A i \in 1..MaxTypes :
            parent[TypeName(i)] = NoSuper
            \/ (i > 1 /\ parent[TypeName(i)] = TypeName(i - 1))}

\* the registries with one of the hierarchies `parents`, whose declarations all
\* report one of the values `idFields` from getIdentifierFieldName()
Registries(parents, idFields) ==
    {[n \in Declared |-> Declaration(n, parent[n], idField)] :
        parent \in parents, idField \in idFields}

\* Registry.getType(fqn): the declaration, or null
Registry_getType(mm, fqn) ==
    IF fqn.t = "string" /\ fqn.s \in DOMAIN mm THEN mm[fqn.s] ELSE JsNull

getFullyQualifiedName(td) == td.fqn

getIdentifierFieldName(td) == td.idField

getSuperTypeDeclaration(mm, td) ==
    IF td.superType = NoSuper THEN JsNull ELSE mm[td.superType]

\* the ancestors of td, nearest first, td itself excluded
RECURSIVE getAllSuperTypeDeclarations(_, _)
getAllSuperTypeDeclarations(mm, td) ==
    LET s == getSuperTypeDeclaration(mm, td)
    IN  IF ~Truthy(s) THEN <<>> ELSE <<s>> \o getAllSuperTypeDeclarations(mm, s)

(***************************************************************************)
(* Tagged objects: maps from property keys to JavaScript values.           *)
(***************************************************************************)
ClassKey == <<"$", "c", "l", "a", "s", "s">>
RelKey == <<"$", "r", "e", "l", "a", "t", "i", "o", "n", "s", "h", "i", "p">>

\* o[k]: undefined when o has no property k
Get(o, k) == IF k \in DOMAIN o THEN o[k] ELSE JsUndefined

\* o[k] = v
Put(o, k, v) == [x \in DOMAIN o \cup {k} |-> IF x = k THEN v ELSE o[x]]

\* identifiers a caller stores
Ids == {<<"p">>, <<"/", " ">>}

\* $class values: null, the empty string, a declared name, an undeclared name
ClassValues == {JsNull, JsStr(<<>>)} \cup {JsStr(n) : n \in Declared \cup {Unknown}}

Objects ==
    {[k \in keys |-> CASE k = ClassKey -> c
                       [] k = RelKey -> JsBool(TRUE)
                       [] OTHER -> JsStr(<<"p">>)] :
        keys \in SUBSET {ClassKey, RelKey, IdKey}, c \in ClassValues}

(***************************************************************************)
(* concerto.js: object introspection.  Every operator yields the outcome   *)
(* of the call; setIdentifier also yields the object as the call left it.  *)
(***************************************************************************)
\* checkConcertoObject consulting the registry before it tests $class
checkConcertoObject_lookupFirst(o, mm) ==
    LET typeDeclaration == Registry_getType(mm, Get(o, ClassKey))
    IN  IF ~Truthy(typeDeclaration) THEN Throw("UnknownType", 1)
        ELSE IF ~Truthy(Get(o, ClassKey)) THEN Throw("MissingTypeTag", 1)
        ELSE Return(typeDeclaration, 1)

checkConcertoObject(o, mm) ==
    IF ~Truthy(Get(o, ClassKey)) THEN Throw("MissingTypeTag", 0)
    ELSE LET typeDeclaration == Registry_getType(mm, Get(o, ClassKey))
         IN  IF ~Truthy(typeDeclaration) THEN Throw("UnknownType", 1)
             ELSE Return(typeDeclaration, 1)

getIdentifier(o, mm) ==
    LET c == checkConcertoObject(o, mm)
    IN  IF c.kind # "ok" THEN c
        ELSE LET typeDeclaration == Registry_getType(mm, Get(o, ClassKey))
                 idField == getIdentifierFieldName(typeDeclaration)
             IN  IF ~Truthy(idField) THEN Throw("NotIdentifiable", c.lookups + 1)
                 ELSE Return(Get(o, JsToString(idField)), c.lookups + 1)

isIdentifiable(o, mm) ==
    LET c == checkConcertoObject(o, mm)
    IN  IF c.kind # "ok" THEN c
        ELSE LET typeDeclaration == Registry_getType(mm, Get(o, ClassKey))
                 idField == getIdentifierFieldName(typeDeclaration)
             IN  Return(JsBool(idField # JsNull), c.lookups + 1)

isRelationship(o, mm) ==
    LET c == checkConcertoObject(o, mm)
    IN  IF c.kind # "ok" THEN c
        ELSE Return(JsBool(Get(o, RelKey) = JsBool(TRUE)), c.lookups)

\* the outcome of setIdentifier(o, mm, id) and the object after the call
setIdentifier(o, mm, id) ==
    LET c == checkConcertoObject(o, mm)
    IN  IF c.kind # "ok" THEN [out |-> c, obj |-> o]
        ELSE LET typeDeclaration == Registry_getType(mm, Get(o, ClassKey))
                 idField == getIdentifierFieldName(typeDeclaration)
             IN  [out |-> Return(JsUndefined, c.lookups + 1),
                  obj |-> Put(o, JsToString(idField), id)]

getFullyQualifiedIdentifier(o, mm) ==
    LET c == checkConcertoObject(o, mm)
    IN  IF c.kind # "ok" THEN c
        ELSE LET i == getIdentifier(o, mm)
             IN  IF i.kind # "ok" THEN Throw(i.kind, c.lookups + i.lookups)
                 ELSE Return(JsStr(JsToString(Get(o, ClassKey)) \o <<"#">>
                                     \o JsToString(i.val)),
                             c.lookups + i.lookups)

\* encodeURI: escapes a space, leaves the reserved character '/' as it is
RECURSIVE encodeURI(_)
encodeURI(s) ==
    IF s = <<>> THEN <<>>
    ELSE (IF Head(s) = " " THEN <<"%", "2", "0">> ELSE <<Head(s)>>)
         \o encodeURI(Tail(s))

RESOURCE_SCHEME == <<"r", "e", "s", "o", "u", "r", "c", "e">>

toURI(o, mm) ==
    LET c == checkConcertoObject(o, mm)
    IN  IF c.kind # "ok" THEN c
        ELSE LET i == getIdentifier(o, mm)
             IN  IF i.kind # "ok" THEN Throw(i.kind, c.lookups + i.lookups)
                 ELSE Return(JsStr(RESOURCE_SCHEME \o <<":">>
                                     \o JsToString(Get(o, ClassKey)) \o <<"#">>
                                     \o encodeURI(JsToString(i.val))),
                             c.lookups + i.lookups)

getType(o, mm) ==
    LET c == checkConcertoObject(o, mm)
    IN  IF c.kind # "ok" THEN c
        ELSE Return(JsStr(getShortName(Get(o, ClassKey).s)), c.lookups)

getNamespace(o, mm) ==
    LET c == checkConcertoObject(o, mm)
    IN  IF c.kind # "ok" THEN c
        ELSE LET n == ModelUtil_getNamespace(Get(o, ClassKey))
             IN  [n EXCEPT !.lookups = c.lookups]

\* The while loop of instanceOf from superTypeDeclaration on.  A walk of more
\* steps than the registry has declarations has come back to a declaration it
\* left, and the loop never ends: the outcome NonTermination.
\* instanceOf comparing the direct supertype only, without walking on
instanceOfWalk_directOnly(mm, superTypeDeclaration, fqt, steps) ==
    IF ~Truthy(superTypeDeclaration) THEN "false"
    ELSE IF getFullyQualifiedName(superTypeDeclaration) = fqt THEN "true"
    ELSE "false"

RECURSIVE instanceOfWalk(_, _, _, _)
instanceOfWalk(mm, superTypeDeclaration, fqt, steps) ==
    IF ~Truthy(superTypeDeclaration) THEN "false"
    ELSE IF steps > Cardinality(DOMAIN mm) THEN "NonTermination"
    ELSE IF getFullyQualifiedName(superTypeDeclaration) = fqt THEN "true"
    ELSE instanceOfWalk(mm, getSuperTypeDeclaration(mm, superTypeDeclaration),
                        fqt, steps + 1)

instanceOf(o, mm, fqt) ==
    LET c == checkConcertoObject(o, mm)
    IN  IF c.kind # "ok" THEN c
        ELSE LET classDeclaration == c.val
             IN  IF getFullyQualifiedName(classDeclaration) = fqt
                 THEN Return(JsBool(TRUE), c.lookups)
                 ELSE LET w == instanceOfWalk(mm,
                                   getSuperTypeDeclaration(mm, classDeclaration),
                                   fqt, 1)
                      IN  IF w = "NonTermination" THEN Throw(w, c.lookups)
                          ELSE Return(JsBool(w = "true"), c.lookups)

(***************************************************************************)
(* ModelUtil.isAssignableTo.  modelFile is the registry the type name is   *)
(* resolved in; propertyTypeName is property.getFullyQualifiedTypeName().  *)
(***************************************************************************)
\* isAssignableTo resolving the type name without failing when it is undeclared
isAssignableTo_noUnknownCheck(modelFile, typeName, propertyTypeName) ==
    LET isDirectMatch == (typeName = propertyTypeName)
    IN  IF isDirectMatch \/ isPrimitiveType(typeName)
           \/ isPrimitiveType(propertyTypeName)
        THEN Return(JsBool(isDirectMatch), 0)
        ELSE LET typeDeclaration == Registry_getType(modelFile, JsStr(typeName))
             IN  IF ~Truthy(typeDeclaration) THEN Return(JsBool(FALSE), 1)
                 ELSE LET all == getAllSuperTypeDeclarations(modelFile,
                                                             typeDeclaration)
                      IN  Return(JsBool(\E k \in 1..Len(all) :
                                     getFullyQualifiedName(all[k])
                                         = propertyTypeName), 1)

\* isAssignableTo without the direct-match short cut
isAssignableTo_noDirectMatch(modelFile, typeName, propertyTypeName) ==
    IF isPrimitiveType(typeName) \/ isPrimitiveType(propertyTypeName)
    THEN Return(JsBool(typeName = propertyTypeName), 0)
    ELSE LET typeDeclaration == Registry_getType(modelFile, JsStr(typeName))
         IN  IF ~Truthy(typeDeclaration) THEN Throw("UnknownType", 1)
             ELSE LET all == getAllSuperTypeDeclarations(modelFile,
                                                         typeDeclaration)
                  IN  Return(JsBool(\E k \in 1..Len(all) :
                                 getFullyQualifiedName(all[k])
                                     = propertyTypeName), 1)

isAssignableTo(modelFile, typeName, propertyTypeName) ==
    LET isDirectMatch == (typeName = propertyTypeName)
    IN  IF isDirectMatch \/ isPrimitiveType(typeName)
           \/ isPrimitiveType(propertyTypeName)
        THEN Return(JsBool(isDirectMatch), 0)
        ELSE LET typeDeclaration == Registry_getType(modelFile, JsStr(typeName))
             IN  IF ~Truthy(typeDeclaration) THEN Throw("UnknownType", 1)
                 ELSE LET all == getAllSuperTypeDeclarations(modelFile,
                                                             typeDeclaration)
                      IN  Return(JsBool(\E k \in 1..Len(all) :
                                     getFullyQualifiedName(all[k])
                                         = propertyTypeName), 1)

(***************************************************************************)
(* The state machine.  registry is the externally owned type registry, obj *)
(* the caller-owned object, arg the string a caller hands to the name      *)
(* operations, ret the last call: its operation, arguments and outcome.    *)
(***************************************************************************)
Call(op, args, out) ==
    [op |-> op, args |-> args, kind |-> out.kind, val |-> out.val,
     lookups |-> out.lookups]

Idle == Call("none", <<>>, Return(JsUndefined, 0))

StringName == <<"S", "t", "r", "i", "n", "g">>
IntegerName == <<"I", "n", "t", "e", "g", "e", "r">>

\* type names a caller asks about
TargetNames == Declared \cup {Unknown, StringName}
AssignNames == Declared \cup {Unknown, StringName, IntegerName}

GetIdentifier ==
    /\ ret' = Call("getIdentifier", <<>>, getIdentifier(obj, registry))
    /\ UNCHANGED <<registry, obj, arg>>

IsIdentifiable ==
    /\ ret' = Call("isIdentifiable", <<>>, isIdentifiable(obj, registry))
    /\ UNCHANGED <<registry, obj, arg>>

IsRelationship ==
    /\ ret' = Call("isRelationship", <<>>, isRelationship(obj, registry))
    /\ UNCHANGED <<registry, obj, arg>>

SetIdentifier ==
    \E id \in Ids :
        LET r == setIdentifier(obj, registry, JsStr(id))
        IN  /\ obj' = r.obj
            /\ ret' = Call("setIdentifier", <<JsStr(id)>>, r.out)
            /\ UNCHANGED <<registry, arg>>

GetFullyQualifiedIdentifier ==
    /\ ret' = Call("getFullyQualifiedIdentifier", <<>>,
                   getFullyQualifiedIdentifier(obj, registry))
    /\ UNCHANGED <<registry, obj, arg>>

ToURI ==
    /\ ret' = Call("toURI", <<>>, toURI(obj, registry))
    /\ UNCHANGED <<registry, obj, arg>>

GetType ==
    /\ ret' = Call("getType", <<>>, getType(obj, registry))
    /\ UNCHANGED <<registry, obj, arg>>

GetNamespace ==
    /\ ret' = Call("getNamespace", <<>>, getNamespace(obj, registry))
    /\ UNCHANGED <<registry, obj, arg>>

InstanceOf ==
    \E fqt \in TargetNames :
        /\ ret' = Call("instanceOf", <<fqt>>, instanceOf(obj, registry, fqt))
        /\ UNCHANGED <<registry, obj, arg>>

IsAssignableTo ==
    \E typeName \in AssignNames, propertyTypeName \in AssignNames :
        /\ ret' = Call("isAssignableTo", <<typeName, propertyTypeName>>,
                       isAssignableTo(registry, typeName, propertyTypeName))
        /\ UNCHANGED <<registry, obj, arg>>

Init ==
    /\ registry \in Registries(Chains, IdFieldValues)
    /\ obj \in Objects
    /\ arg = JsUndefined
    /\ ret = Idle

Next ==
    \/ GetIdentifier
    \/ IsIdentifiable
    \/ IsRelationship
    \/ SetIdentifier
    \/ GetFullyQualifiedIdentifier
    \/ ToURI
    \/ GetType
    \/ GetNamespace
    \/ InstanceOf

Spec == Init /\ [][Next]_vars

(***************************************************************************)
(* The hierarchy operations over every single-inheritance forest.          *)
(***************************************************************************)
InitHier ==
    /\ registry \in Registries(Forests, {JsNull})
    /\ obj \in {o \in Objects : DOMAIN o \subseteq {ClassKey}}
    /\ arg = JsUndefined
    /\ ret = Idle

NextHier ==
    \/ InstanceOf
    \/ IsAssignableTo

SpecHier == InitHier /\ [][NextHier]_vars

(***************************************************************************)
(* The name operations of ModelUtil, applied to bounded inputs.            *)
(***************************************************************************)
NameAlphabet == {"a", "b", Dot}

\* the strings of at most MaxLen characters
Names == UNION {[1..k -> NameAlphabet] : k \in 0..MaxLen}

Segments ==
    { <<>>, <<"a">>, <<"o", Dot, "a">>,
      <<"1", Dot, "0", Dot, "2">>, <<"v", "1", Dot, "0", Dot, "2">>,
      <<"1", Dot, "0">>, <<"0", "1", Dot, "0", Dot, "0">> }

RECURSIVE JoinAt(_)
JoinAt(segs) ==
    IF Len(segs) = 1 THEN segs[1]
    ELSE segs[1] \o <<At>> \o JoinAt(Tail(segs))

\* the strings of segments joined by at most MaxAts '@' characters
Namespaces == {JoinAt(segs) : segs \in UNION {[1..k -> Segments] : k \in 1..(MaxAts + 1)}}

\* String.prototype.lastIndexOf of a value that is no string throws a TypeError
GetShortName ==
    /\ ret' = Call("ModelUtil.getShortName", <<>>,
                   IF arg.t = "string" THEN Return(JsStr(getShortName(arg.s)), 0)
                   ELSE Throw("TypeError", 0))
    /\ UNCHANGED <<registry, obj, arg>>

GetNamespaceOfName ==
    /\ ret' = Call("ModelUtil.getNamespace", <<>>, ModelUtil_getNamespace(arg))
    /\ UNCHANGED <<registry, obj, arg>>

ParseNamespace ==
    /\ ret' = Call("ModelUtil.parseNamespace", <<>>, parseNamespace(arg))
    /\ UNCHANGED <<registry, obj, arg>>

InitNames ==
    /\ registry = <<>>
    /\ obj = <<>>
    /\ arg \in {JsStr(n) : n \in Names \cup Namespaces} \cup {JsUndefined}
    /\ ret = Idle

NextNames ==
    \/ GetShortName
    \/ GetNamespaceOfName
    \/ ParseNamespace

SpecNames == InitNames /\ [][NextNames]_vars

(***************************************************************************)
(* Properties.  They are stated over the state, with definitions of their  *)
(* own for what the registry resolves and declares.                        *)
(***************************************************************************)
IntrospectorOps ==
    {"getIdentifier", "isIdentifiable", "setIdentifier", "isRelationship",
     "getFullyQualifiedIdentifier", "toURI", "getType", "getNamespace",
     "instanceOf"}

HasClass(o) == ClassKey \in DOMAIN o

\* the registry resolves the discriminator of o
Resolves(o, mm) == HasClass(o) /\ o[ClassKey].t = "string" /\ o[ClassKey].s \in DOMAIN mm

\* the identifier field name the declared type of o reports
IdFieldOf(o, mm) == mm[o[ClassKey].s].idField

Absent(v) == v \in {JsNull, JsUndefined}

\* the properties in which objects o and p differ
Differ(o, p) ==
    {k \in DOMAIN o \cup DOMAIN p :
        k \notin DOMAIN o \/ k \notin DOMAIN p \/ o[k] # p[k]}

\* C1: on an object whose $class resolves to a type that declares no identifier
\* field, setIdentifier fails with NotIdentifiable and leaves the object as it was.
C1_SetIdentifierNotIdentifiable ==
    [][(ret'.op = "setIdentifier" /\ Resolves(obj, registry)
            /\ Absent(IdFieldOf(obj, registry)))
        => (ret'.kind = "NotIdentifiable" /\ obj' = obj)]_vars

\* C2 as stated: every introspection operation fails with MissingTypeTag when the
\* object has no $class field (before any registry lookup) and with UnknownType
\* when $class is present but the registry does not resolve it; the object is left
\* unchanged in both cases.
C2_ErrorsAsStated ==
    [][ret'.op \in IntrospectorOps
        => /\ ~HasClass(obj)
                => (ret'.kind = "MissingTypeTag" /\ ret'.lookups = 0 /\ obj' = obj)
           /\ (HasClass(obj) /\ ~Resolves(obj, registry))
                => (ret'.kind = "UnknownType" /\ obj' = obj)]_vars

\* $class is absent, or present with a falsy value (null, the empty string)
NoTag(o) == ~HasClass(o) \/ o[ClassKey] \in {JsNull, JsStr(<<>>)}

\* C2 amended: every introspection operation fails with MissingTypeTag, before any
\* registry lookup, when $class is absent or falsy (null, the empty string), and
\* with UnknownType when $class is a non-empty name the registry does not resolve;
\* the object is left unchanged in both cases.
C2_ErrorsAmended ==
    [][ret'.op \in IntrospectorOps
        => /\ NoTag(obj)
                => (ret'.kind = "MissingTypeTag" /\ ret'.lookups = 0 /\ obj' = obj)
           /\ (~NoTag(obj) /\ ~Resolves(obj, registry))
                => (ret'.kind = "UnknownType" /\ obj' = obj)]_vars

\* an operation has failed with MissingTypeTag on an object whose $class is present
\* and empty
C2_Witness ==
    /\ ret.op = "toURI"
    /\ ret.kind = "MissingTypeTag"
    /\ HasClass(obj)
    /\ obj[ClassKey] = JsStr(<<>>)

\* C8: no call changes the registry; only a successful setIdentifier changes the
\* object, and it changes nothing but the property named by the identifier field
\* of the object's declared type.
C8_FrameAsStated ==
    [][/\ registry' = registry
       /\ ret'.op # "setIdentifier" => obj' = obj
       /\ \A k \in Differ(obj, obj') :
            /\ ret'.op = "setIdentifier"
            /\ ret'.kind = "ok"
            /\ Resolves(obj, registry)
            /\ IdFieldOf(obj, registry) = JsStr(k)]_vars

\* C10: on an object whose $class resolves to a type whose identifier field name is
\* a non-empty string or absent, isIdentifiable is true exactly when getIdentifier
\* does not fail with NotIdentifiable.
C10_IdentifiableAgrees ==
    (/\ ret.op = "isIdentifiable"
     /\ Resolves(obj, registry)
     /\ IdFieldOf(obj, registry) # JsStr(<<>>))
    => /\ ret.kind = "ok"
       /\ (ret.val = JsBool(TRUE))
            <=> (getIdentifier(obj, registry).kind # "NotIdentifiable")

\* the direct-supertype name of each declared name
ParentOf(mm) == [n \in DOMAIN mm |-> mm[n].superType]

\* the names reached from n by one or more direct-supertype links
AncestorsOf(mm, n) ==
    {Up(ParentOf(mm), n, k) : k \in 1..Cardinality(DOMAIN mm)} \ {NoSuper}

\* C3: on an object whose $class resolves, instanceOf ends and returns true
\* exactly when the target is the name of the object's declared type or of one
\* of its ancestors (so false for unrelated names and for strict descendants).
C3_InstanceOfAncestry ==
    (ret.op = "instanceOf" /\ Resolves(obj, registry))
    => /\ ret.kind = "ok"
       /\ ret.val = JsBool(ret.args[1] \in
                {obj[ClassKey].s} \cup AncestorsOf(registry, obj[ClassKey].s))

\* instanceOf has answered true for the supertype of the supertype of the
\* object's declared type
C3_Witness ==
    /\ ret.op = "instanceOf"
    /\ Resolves(obj, registry)
    /\ ret.val = JsBool(TRUE)
    /\ ret.args[1] \in AncestorsOf(registry, obj[ClassKey].s)
    /\ ret.args[1] # registry[obj[ClassKey].s].superType

\* the six primitive type names
Primitive(n) ==
    n \in { <<"B", "o", "o", "l", "e", "a", "n">>, <<"S", "t", "r", "i", "n", "g">>,
            <<"D", "a", "t", "e", "T", "i", "m", "e">>,
            <<"D", "o", "u", "b", "l", "e">>,
            <<"I", "n", "t", "e", "g", "e", "r">>, <<"L", "o", "n", "g">> }

\* C4: isAssignableTo returns true when the type name equals the property's
\* declared type, whatever the name; when the two differ and one of them is
\* primitive it returns false; both without a registry lookup or an error.
C4_ReflexiveAndPrimitive ==
    ret.op = "isAssignableTo"
    => /\ ret.args[1] = ret.args[2]
            => (ret.kind = "ok" /\ ret.val = JsBool(TRUE) /\ ret.lookups = 0)
       /\ (ret.args[1] # ret.args[2]
                /\ (Primitive(ret.args[1]) \/ Primitive(ret.args[2])))
            => (ret.kind = "ok" /\ ret.val = JsBool(FALSE) /\ ret.lookups = 0)

\* isAssignableTo has answered false for String against a declared type
C4_Witness ==
    /\ ret.op = "isAssignableTo"
    /\ ret.args[1] = StringName
    /\ ret.args[2] \in DOMAIN registry
    /\ ret.val = JsBool(FALSE)
    /\ ret.lookups = 0

\* C5: when the type name differs from the property's declared type and neither
\* is primitive, isAssignableTo fails with UnknownType if the registry does not
\* resolve the type name, and otherwise returns true exactly when the property's
\* declared type names an ancestor of the type (widening, never narrowing).
C5_AssignableToAncestors ==
    (/\ ret.op = "isAssignableTo"
     /\ ret.args[1] # ret.args[2]
     /\ ~Primitive(ret.args[1])
     /\ ~Primitive(ret.args[2]))
    => IF ret.args[1] \notin DOMAIN registry THEN ret.kind = "UnknownType"
       ELSE /\ ret.kind = "ok"
            /\ ret.val = JsBool(ret.args[2] \in AncestorsOf(registry, ret.args[1]))

\* in a chain C extends B extends A, C has been found assignable to a property
\* declared as A
C5_Witness ==
    /\ registry[TypeName(3)].superType = TypeName(2)
    /\ registry[TypeName(2)].superType = TypeName(1)
    /\ ret.op = "isAssignableTo"
    /\ ret.args = <<TypeName(3), TypeName(1)>>
    /\ ret.val = JsBool(TRUE)

\* C9: for an object whose $class resolves and a target name that is not
\* primitive, instanceOf(obj, X) returns what isAssignableTo($class, a property
\* declared as X) returns.
C9_InstanceOfAgreesWithAssignable ==
    (/\ ret.op = "instanceOf"
     /\ Resolves(obj, registry)
     /\ ~Primitive(obj[ClassKey].s)
     /\ ~Primitive(ret.args[1]))
    => LET a == isAssignableTo(registry, obj[ClassKey].s, ret.args[1])
       IN  ret.kind = a.kind /\ ret.val = a.val

\* instanceOf has answered false for a strict descendant of the declared type
C9_Witness ==
    /\ ret.op = "instanceOf"
    /\ Resolves(obj, registry)
    /\ ret.args[1] \in DOMAIN registry
    /\ obj[ClassKey].s \in AncestorsOf(registry, ret.args[1])
    /\ ret.val = JsBool(FALSE)

\* the number of occurrences of character c in s
CountOf(s, c) == Cardinality({i \in 1..Len(s) : s[i] = c})

\* s with every occurrence of character c replaced by character d
ReplaceAll(s, c, d) == [i \in 1..Len(s) |-> IF s[i] = c THEN d ELSE s[i]]

\* the parts of s before and after its first occurrence of character c
Before(s, c) == SubSeq(s, 1, (CHOOSE i \in 1..Len(s) : s[i] = c /\ \A j \in 1..(i - 1) : s[j] # c) - 1)
After(s, c) == SubSeq(s, (CHOOSE i \in 1..Len(s) : s[i] = c /\ \A j \in 1..(i - 1) : s[j] # c) + 1, Len(s))

\* C6: for a non-empty name with a dot, the namespace, a dot and the short name
\* make up the name; for a non-empty name without a dot, the namespace is empty
\* and the short name is the name.
C6_NamespaceAndShortName ==
    (ret.op = "ModelUtil.getNamespace" /\ arg.t = "string" /\ arg.s # <<>>)
    => /\ ret.kind = "ok"
       /\ ret.val.t = "string"
       /\ IF CountOf(arg.s, Dot) > 0
          THEN ret.val.s \o <<Dot>> \o getShortName(arg.s) = arg.s
          ELSE ret.val.s = <<>> /\ getShortName(arg.s) = arg.s

\* getNamespace has split a name with two dots: its namespace holds a dot
C6_Witness ==
    /\ ret.op = "ModelUtil.getNamespace"
    /\ ret.kind = "ok"
    /\ arg.t = "string"
    /\ CountOf(arg.s, Dot) = 2
    /\ CountOf(ret.val.s, Dot) = 1

\* the inputs on which C7 has parseNamespace fail
C7_Invalid(ns) ==
    \/ ns.t # "string"
    \/ ns.s = <<>>
    \/ CountOf(ns.s, At) > 1
    \/ CountOf(ns.s, At) = 1 /\ ~SemverValid(After(ns.s, At))

\* C7: parseNamespace fails with InvalidArgument exactly when ns is empty or
\* absent, holds more than one '@', or holds one '@' followed by something that is
\* no semantic version; otherwise name is the part before '@' (all of ns without
\* one), escapedNamespace is ns with every '@' replaced by '_', and version and
\* versionParsed are present exactly when ns holds an '@'.
C7_ParseNamespace ==
    ret.op = "ModelUtil.parseNamespace"
    => IF C7_Invalid(arg) THEN ret.kind = "InvalidArgument"
       ELSE /\ ret.kind = "ok"
            /\ ret.val.name = JsStr(IF CountOf(arg.s, At) = 0 THEN arg.s
                                    ELSE Before(arg.s, At))
            /\ ret.val.escapedNamespace = JsStr(ReplaceAll(arg.s, At, "_"))
            /\ CountOf(ret.val.escapedNamespace.s, At) = 0
            /\ (ret.val.version # JsNull) <=> (CountOf(arg.s, At) > 0)
            /\ (ret.val.versionParsed # JsNull) <=> (CountOf(arg.s, At) > 0)
            /\ CountOf(arg.s, At) > 0 => ret.val.version = JsStr(After(arg.s, At))

\* parseNamespace has parsed a versioned namespace
C7_Witness ==
    /\ ret.op = "ModelUtil.parseNamespace"
    /\ ret.kind = "ok"
    /\ ret.val.name = JsStr(<<"o", Dot, "a">>)
    /\ ret.val.version = JsStr(<<"1", Dot, "0", Dot, "2">>)
    /\ ret.val.escapedNamespace = JsStr(<<"o", Dot, "a", "_", "1", Dot, "0", Dot, "2">>)

====
